---- MODULE Spec2Model ----
(***************************************************************************)
(* A model of background-image.c: the pixel-format kernels, the            *)
(* transform-and-copy switch of load_background_from_buffer and            *)
(* parse_background_mode.                                                   *)
(*                                                                         *)
(* Memory is modelled byte by byte: a buffer is a function from byte       *)
(* offsets 0..n-1 to 0..255.  A uint32_t is a function from byte           *)
(* significance 0..3 (0 = least significant) to 0..255, so that the        *)
(* host's byte order decides which memory byte lands where.                *)
(***************************************************************************)
EXTENDS Integers, Sequences, FiniteSets, TLC

VARIABLES
    entry,              \* which public function was called: "load", "kernel", "parse"
    is_little_endian,   \* the host's byte order (background-image.c:324-325)
    format,             \* load_background_from_buffer: format
    transform,          \* load_background_from_buffer: transform
    width, height, stride,  \* load_background_from_buffer: width, height, stride
    srcbuf,             \* load_background_from_buffer: buf (the caller's bytes)
    destbuf,            \* cairo_image_surface_get_data(image) / a kernel's buf
    destwidth, destheight, deststride,  \* the image's (or the kernel's) geometry
    pc,                 \* position in the running function
    desty, destx,       \* the copy loops' counters
    kernel,             \* the kernel function that is running
    ky, kx,             \* the kernel loops' counters (y, x)
    mode,               \* parse_background_mode: the text, a NUL-terminated string
    result,             \* the returned value: "image", a mode, or "none" so far
    log,                \* the lines given to swaylock_log, in order
    reads,              \* offsets of srcbuf read by the last step
    writes,             \* offsets of destbuf written by the last step
    srcwrites,          \* offsets of srcbuf written by the last step
    copied,             \* destbuf as the copy stage left it
    kstart,             \* destbuf as it was when the running kernel was entered
    first               \* the first call's arguments, once its result was loaded again

vars == <<entry, is_little_endian, format, transform, width, height, stride,
          srcbuf, destbuf, destwidth, destheight, deststride, pc, desty, destx,
          kernel, ky, kx, mode, result, log, reads, writes, srcwrites, copied,
          kstart, first>>

(***************************************************************************)
(* Bounds of the model.                                                    *)
(***************************************************************************)
MaxWidth == 4
MaxHeight == 4
MaxPad == 1

Min(a, b) == IF a < b THEN a ELSE b

RECURSIVE Pow2(_)
Pow2(n) == IF n = 0 THEN 1 ELSE 2 * Pow2(n - 1)

(***************************************************************************)
(* uint32_t values and their loads and stores.                             *)
(***************************************************************************)
\* The uint32_t with the given bytes, most significant first.
U32(b3, b2, b1, b0) == [k \in 0..3 |-> CASE k = 0 -> b0 [] k = 1 -> b1 [] k = 2 -> b2 [] OTHER -> b3]

\* The bytes at o..o+3 seen through a uint32_t pointer on this host.
Load32(buf, o, le) == [k \in 0..3 |-> IF le THEN buf[o + k] ELSE buf[o + 3 - k]]

\* buf after a store of v through a uint32_t pointer at o on this host.
Store32(buf, o, v, le) ==
    [i \in DOMAIN buf |->
        IF i \in o..(o + 3) THEN (IF le THEN v[i - o] ELSE v[3 - (i - o)]) ELSE buf[i]]

\* le32toh: the identity on a little-endian host, a byte swap on a big-endian one.
le32toh(v, le) == IF le THEN v ELSE [k \in 0..3 |-> v[3 - k]]

\* (color >> s) & 0xFF
ShrMask(color, s) ==
    LET q == s \div 8
        r == s % 8
        lo == color[q] \div Pow2(r)
        hi == IF q + 1 <= 3 THEN color[q + 1] * Pow2(8 - r) ELSE 0
    IN (lo + hi) % 256

\* 0 | a << 16 | b << 8 | c
Pack(a, b, c) == U32(0, a, b, c)

(***************************************************************************)
(* The format kernels, one pixel (x, y) of buf at a time.                  *)
(***************************************************************************)
\* buf + y * stride + x * 4, as an offset into buf.
PixelAt(x, y, stride_) == y * stride_ + x * 4

cairo_rgb24_from_xrgb32_le(buf, x, y, stride_, le) ==
    LET pix == PixelAt(x, y, stride_)
    IN Store32(buf, pix, Pack(buf[pix + 2], buf[pix + 1], buf[pix]), le)

\* The xbgr32 kernel with the byte offsets of the xrgb32 kernel.
xbgr32_unswapped(buf, x, y, stride_, le) ==
    LET pix == PixelAt(x, y, stride_)
    IN Store32(buf, pix, Pack(buf[pix + 2], buf[pix + 1], buf[pix]), le)

cairo_rgb24_from_xbgr32_le(buf, x, y, stride_, le) ==
    LET pix == PixelAt(x, y, stride_)
    IN Store32(buf, pix, Pack(buf[pix], buf[pix + 1], buf[pix + 2]), le)

cairo_rgb24_from_xrgb2101010_le(buf, x, y, stride_, le) ==
    LET pix == PixelAt(x, y, stride_)
        color == le32toh(Load32(buf, pix, le), le)
    IN Store32(buf, pix,
               Pack(ShrMask(color, 22), ShrMask(color, 12), ShrMask(color, 2)), le)

cairo_rgb24_from_xbgr2101010_le(buf, x, y, stride_, le) ==
    LET pix == PixelAt(x, y, stride_)
        color == le32toh(Load32(buf, pix, le), le)
    IN Store32(buf, pix,
               Pack(ShrMask(color, 2), ShrMask(color, 12), ShrMask(color, 22)), le)

\* The rgbx1010102 kernel with the shifts of the xrgb2101010 kernel.
rgbx1010102_shifts_of_xrgb(buf, x, y, stride_, le) ==
    LET pix == PixelAt(x, y, stride_)
        color == le32toh(Load32(buf, pix, le), le)
    IN Store32(buf, pix,
               Pack(ShrMask(color, 22), ShrMask(color, 12), ShrMask(color, 2)), le)

cairo_rgb24_from_rgbx1010102_le(buf, x, y, stride_, le) ==
    LET pix == PixelAt(x, y, stride_)
        color == le32toh(Load32(buf, pix, le), le)
    IN Store32(buf, pix,
               Pack(ShrMask(color, 24), ShrMask(color, 14), ShrMask(color, 4)), le)

cairo_rgb24_from_bgrx1010102_le(buf, x, y, stride_, le) ==
    LET pix == PixelAt(x, y, stride_)
        color == le32toh(Load32(buf, pix, le), le)
    IN Store32(buf, pix,
               Pack(ShrMask(color, 4), ShrMask(color, 14), ShrMask(color, 24)), le)

\* 24 bits = 3 bytes in, 32 bits = 4 bytes out, in the same row of the same buffer.
cairo_rgb24_from_bgr888_le(buf, x, y, stride_, le) ==
    LET srcpix == y * stride_ + x * 3
        dstpix == PixelAt(x, y, stride_)
    IN Store32(buf, dstpix, Pack(buf[srcpix], buf[srcpix + 1], buf[srcpix + 2]), le)

cairo_rgb24_swap_rb(buf, x, y, stride_, le) ==
    LET pix == PixelAt(x, y, stride_)
    IN Store32(buf, pix, Pack(buf[pix], buf[pix + 1], buf[pix + 2]), le)

Kernels == {"xrgb32", "xbgr32", "xrgb2101010", "xbgr2101010",
            "rgbx1010102", "bgrx1010102", "bgr888", "swap_rb"}

\* One iteration of the inner loop of kernel k.
KernelPixel(k, buf, x, y, stride_, le) ==
    CASE k = "xrgb32" -> cairo_rgb24_from_xrgb32_le(buf, x, y, stride_, le)
      [] k = "xbgr32" -> cairo_rgb24_from_xbgr32_le(buf, x, y, stride_, le)
      [] k = "xrgb2101010" -> cairo_rgb24_from_xrgb2101010_le(buf, x, y, stride_, le)
      [] k = "xbgr2101010" -> cairo_rgb24_from_xbgr2101010_le(buf, x, y, stride_, le)
      [] k = "rgbx1010102" -> cairo_rgb24_from_rgbx1010102_le(buf, x, y, stride_, le)
      [] k = "bgrx1010102" -> cairo_rgb24_from_bgrx1010102_le(buf, x, y, stride_, le)
      [] k = "bgr888" -> cairo_rgb24_from_bgr888_le(buf, x, y, stride_, le)
      [] OTHER -> cairo_rgb24_swap_rb(buf, x, y, stride_, le)

\* The offsets of buf that one iteration of a kernel stores to.
KernelWrites(x, y, stride_) == PixelAt(x, y, stride_)..(PixelAt(x, y, stride_) + 3)

\* Every kernel, bgr888 too, walking a row from front to back.
KernelColumnsForward(k, w) == [i \in 1..w |-> i - 1]

\* The columns of a row in the order the inner loop visits them: the bgr888
\* kernel walks a row from back to front, the others from front to back.
KernelColumns(k, w) ==
    IF k = "bgr888" THEN [i \in 1..w |-> w - i] ELSE [i \in 1..w |-> i - 1]

\* The place of column x in that order.
KernelIndex(k, x, w) == CHOOSE i \in 1..w : KernelColumns(k, w)[i] = x

KernelFirstX(k, w) == IF w > 0 THEN KernelColumns(k, w)[1] ELSE 0

KernelRowDone(k, x, w) == KernelIndex(k, x, w) = w

KernelNextX(k, x, w) == KernelColumns(k, w)[KernelIndex(k, x, w) + 1]

(***************************************************************************)
(* parse_background_mode.  A C string is a sequence of character codes     *)
(* ending in the first 0; strcmp compares up to and including it.          *)
(***************************************************************************)
Chars == <<"_", "a", "c", "d", "e", "f", "h", "i", "l", "n", "o", "r", "s", "t",
           "F", "T", " ", "b", "g", "u">>

\* The code of a character: its place in Chars (0 is the terminator).
Code(c) == CHOOSE i \in 1..Len(Chars) : Chars[i] = c

\* A string literal as a NUL-terminated sequence of codes.
CStr(letters) == [i \in 1..(Len(letters) + 1) |->
                     IF i <= Len(letters) THEN Code(letters[i]) ELSE 0]

\* strcmp stopping at the end of the second string: a prefix match.
RECURSIVE strcmp_prefix(_, _)
strcmp_prefix(a, b) ==
    IF Head(b) = 0 THEN 0
    ELSE IF Head(a) # Head(b) THEN (IF Head(a) < Head(b) THEN -1 ELSE 1)
    ELSE strcmp_prefix(Tail(a), Tail(b))

RECURSIVE strcmp(_, _)
strcmp(a, b) ==
    IF Head(a) # Head(b) THEN (IF Head(a) < Head(b) THEN -1 ELSE 1)
    ELSE IF Head(a) = 0 THEN 0
    ELSE strcmp(Tail(a), Tail(b))

Keyword(m) ==
    CASE m = "stretch" -> CStr(<<"s", "t", "r", "e", "t", "c", "h">>)
      [] m = "fill" -> CStr(<<"f", "i", "l", "l">>)
      [] m = "fit" -> CStr(<<"f", "i", "t">>)
      [] m = "center" -> CStr(<<"c", "e", "n", "t", "e", "r">>)
      [] m = "tile" -> CStr(<<"t", "i", "l", "e">>)
      [] OTHER -> CStr(<<"s", "o", "l", "i", "d", "_", "c", "o", "l", "o", "r">>)

UnsupportedModeLine == "Unsupported background mode: %s"

\* The returned mode and the lines logged on the way to it.
parse_background_mode(m) ==
    IF strcmp(m, Keyword("stretch")) = 0
    THEN [ret |-> "BACKGROUND_MODE_STRETCH", logged |-> << >>]
    ELSE IF strcmp(m, Keyword("fill")) = 0
    THEN [ret |-> "BACKGROUND_MODE_FILL", logged |-> << >>]
    ELSE IF strcmp(m, Keyword("fit")) = 0
    THEN [ret |-> "BACKGROUND_MODE_FIT", logged |-> << >>]
    ELSE IF strcmp(m, Keyword("center")) = 0
    THEN [ret |-> "BACKGROUND_MODE_CENTER", logged |-> << >>]
    ELSE IF strcmp(m, Keyword("tile")) = 0
    THEN [ret |-> "BACKGROUND_MODE_TILE", logged |-> << >>]
    ELSE IF strcmp(m, Keyword("solid_color")) = 0
    THEN [ret |-> "BACKGROUND_MODE_SOLID_COLOR", logged |-> << >>]
    ELSE [ret |-> "BACKGROUND_MODE_INVALID", logged |-> <<UnsupportedModeLine>>]

(***************************************************************************)
(* load_background_from_buffer: the inputs.                                *)
(***************************************************************************)
Transforms == {"NORMAL", "90", "180", "270",
               "FLIPPED", "FLIPPED_90", "FLIPPED_180", "FLIPPED_270"}

\* The wl_shm formats the format switch names.
SupportedFormats == {"XBGR8888", "ABGR8888", "XRGB2101010", "ARGB2101010",
                     "XBGR2101010", "ABGR2101010", "RGBX1010102", "RGBA1010102",
                     "BGRX1010102", "BGRA1010102", "BGR888", "RGB888",
                     "XRGB8888", "ARGB8888"}

\* Formats the switch does not name; both have 4-byte pixels.
UnknownFormats == {"RGBX8888", "BGRA8888"}

Formats == SupportedFormats \cup UnknownFormats

\* Bytes of one pixel of the caller's buffer.
BytesPerPixel(f) == IF f \in {"BGR888", "RGB888"} THEN 3 ELSE 4

\* The strides a caller may pass: the rows hold width pixels, perhaps with padding.
Strides(f, w) == {BytesPerPixel(f) * w + 4 * p : p \in 0..MaxPad} \cup {4 * w}

\* The caller's bytes: every byte of a buffer is a distinct marker.
Patterns == {[mul |-> 3, off |-> 16], [mul |-> 253, off |-> 255]}

Fill(p, n) == [i \in 0..(n - 1) |-> (p.mul * i + p.off) % 256]

\* What a byte beyond the end of the caller's buffer may read as.
Garbage == {0, 255}

NoBuf == [i \in {} |-> 0]

(***************************************************************************)
(* load_background_from_buffer: creating the image.                        *)
(***************************************************************************)
rotated(t) == t \in {"90", "270", "FLIPPED_90", "FLIPPED_270"}

\* cairo_image_surface_get_stride of a CAIRO_FORMAT_RGB24 image: 4 bytes a pixel.
ImageStride(w) == 4 * w

\* srcx with the 270 case taking the row as the column (desty for
\* destheight - desty - 1).
srcx_270_plain(t, dx, dy, dw, dh) ==
    CASE t = "90" -> dy
      [] t = "180" -> dw - dx - 1
      [] t = "270" -> dy
      [] t = "FLIPPED" -> dw - dx - 1
      [] t = "FLIPPED_90" -> dy
      [] t = "FLIPPED_270" -> dh - dy - 1
      [] OTHER -> dx

\* srcy with the 90 case left unmirrored (destx for destwidth - destx - 1).
srcy_90_plain(t, dx, dy, dw, dh) ==
    CASE t = "90" -> dx
      [] t = "180" -> dh - dy - 1
      [] t = "270" -> dx
      [] t = "FLIPPED" -> dy
      [] t = "FLIPPED_90" -> dx
      [] t = "FLIPPED_180" -> dh - dy - 1
      [] t = "FLIPPED_270" -> dw - dx - 1
      [] OTHER -> dy

\* srcy with the 270 case pasted from the 90 case.
srcy_270_as_90(t, dx, dy, dw, dh) ==
    CASE t = "90" -> dw - dx - 1
      [] t = "180" -> dh - dy - 1
      [] t = "270" -> dw - dx - 1
      [] t = "FLIPPED" -> dy
      [] t = "FLIPPED_90" -> dx
      [] t = "FLIPPED_180" -> dh - dy - 1
      [] t = "FLIPPED_270" -> dw - dx - 1
      [] OTHER -> dy

\* The coordinate maps of the eight cases of the transform switch.
srcx(t, dx, dy, dw, dh) ==
    CASE t = "90" -> dy
      [] t = "180" -> dw - dx - 1
      [] t = "270" -> dh - dy - 1
      [] t = "FLIPPED" -> dw - dx - 1
      [] t = "FLIPPED_90" -> dy
      [] t = "FLIPPED_270" -> dh - dy - 1
      [] OTHER -> dx

srcy(t, dx, dy, dw, dh) ==
    CASE t = "90" -> dw - dx - 1
      [] t = "180" -> dh - dy - 1
      [] t = "270" -> dx
      [] t = "FLIPPED" -> dy
      [] t = "FLIPPED_90" -> dx
      [] t = "FLIPPED_180" -> dh - dy - 1
      [] t = "FLIPPED_270" -> dw - dx - 1
      [] OTHER -> dy

\* The cases that copy whole rows with memcpy.
RowCopy(t) == t \in {"NORMAL", "FLIPPED_180"}

\* memcpy(dst + d, src + s, n)
memcpy(dst, d, src, s, n) ==
    [i \in DOMAIN dst |-> IF i \in d..(d + n - 1) THEN src[s + (i - d)] ELSE dst[i]]

\* The format switch calling the xrgb32 kernel without the byte-order test.
FormatKernelNoEndianTest(f, le) ==
    CASE f \in {"XBGR8888", "ABGR8888"} -> "xbgr32"
      [] f \in {"XRGB2101010", "ARGB2101010"} -> "xrgb2101010"
      [] f \in {"XBGR2101010", "ABGR2101010"} -> "xbgr2101010"
      [] f \in {"RGBX1010102", "RGBA1010102"} -> "rgbx1010102"
      [] f \in {"BGRX1010102", "BGRA1010102"} -> "bgrx1010102"
      [] f \in {"BGR888", "RGB888"} -> "bgr888"
      [] OTHER -> "xrgb32"

\* The kernel the format switch calls first, "none" when it calls none.
FormatKernel(f, le) ==
    CASE f \in {"XBGR8888", "ABGR8888"} -> "xbgr32"
      [] f \in {"XRGB2101010", "ARGB2101010"} -> "xrgb2101010"
      [] f \in {"XBGR2101010", "ABGR2101010"} -> "xbgr2101010"
      [] f \in {"RGBX1010102", "RGBA1010102"} -> "rgbx1010102"
      [] f \in {"BGRX1010102", "BGRA1010102"} -> "bgrx1010102"
      [] f \in {"BGR888", "RGB888"} -> "bgr888"
      [] OTHER -> IF le THEN "none" ELSE "xrgb32"

\* The default label of the format switch.
FormatIsDefault(f) == f \notin SupportedFormats

UnknownFormatLine == "Unknown pixel format: %u. Assuming XRGB32. Colors may look wrong."

(***************************************************************************)
(* The initial states: one call of a public function, with its arguments.  *)
(***************************************************************************)
InitIdle ==
    /\ desty = 0 /\ destx = 0
    /\ result = "none"
    /\ log = << >>
    /\ reads = {} /\ writes = {} /\ srcwrites = {}
    /\ copied = NoBuf
    /\ first = << >>

\* load_background_from_buffer(buf, format, width, height, stride, transform)
Init ==
    /\ entry = "load"
    /\ is_little_endian \in BOOLEAN
    /\ format \in Formats
    /\ transform \in Transforms
    /\ width \in 0..MaxWidth
    /\ height \in 0..MaxHeight
    /\ stride \in Strides(format, width)
    /\ \E p \in Patterns : srcbuf = Fill(p, height * stride)
    /\ destbuf = NoBuf /\ destwidth = 0 /\ destheight = 0 /\ deststride = 0
    /\ pc = "create"
    /\ kernel = "none" /\ ky = 0 /\ kx = 0 /\ kstart = NoBuf
    /\ mode = << >>
    /\ InitIdle

(***************************************************************************)
(* load_background_from_buffer, step by step.                              *)
(***************************************************************************)
callvars == <<entry, is_little_endian, format, transform, width, height, stride,
              srcbuf, mode, first>>

imagevars == <<destwidth, destheight, deststride>>

kernelvars == <<kernel, ky, kx, kstart>>

\* Lines 147-170: the image is created with the geometry the transform asks for;
\* cairo hands out zeroed pixels.
CreateImage ==
    /\ pc = "create"
    /\ destwidth' = (IF rotated(transform) THEN height ELSE width)
    /\ destheight' = (IF rotated(transform) THEN width ELSE height)
    /\ deststride' = ImageStride(destwidth')
    /\ destbuf' = [i \in 0..(destheight' * deststride' - 1) |-> 0]
    /\ desty' = 0 /\ destx' = 0
    /\ pc' = "copy"
    /\ reads' = {} /\ writes' = {} /\ srcwrites' = {}
    /\ UNCHANGED <<callvars, kernelvars, result, log, copied>>

\* Lines 182-183: the one big memcpy of the normal transform.
CopyAll ==
    /\ pc = "copy"
    /\ transform = "NORMAL"
    /\ stride = deststride
    /\ destbuf' = memcpy(destbuf, 0, srcbuf, 0, destheight * deststride)
    /\ reads' = 0..(destheight * deststride - 1)
    /\ writes' = 0..(destheight * deststride - 1)
    /\ srcwrites' = {}
    /\ copied' = destbuf'
    /\ pc' = "format"
    /\ UNCHANGED <<callvars, imagevars, kernelvars, desty, destx, result, log>>

\* Lines 185-187 and 241-244: one row copied with memcpy.
CopyRow ==
    /\ pc = "copy"
    /\ RowCopy(transform)
    /\ ~(transform = "NORMAL" /\ stride = deststride)
    /\ desty < destheight
    /\ LET minstride == Min(stride, deststride)
           sy == srcy(transform, 0, desty, destwidth, destheight)
       IN /\ destbuf' = memcpy(destbuf, desty * deststride, srcbuf, sy * stride, minstride)
          /\ reads' = (sy * stride)..(sy * stride + minstride - 1)
          /\ writes' = (desty * deststride)..(desty * deststride + minstride - 1)
    /\ srcwrites' = {}
    /\ desty' = desty + 1
    /\ pc' = (IF desty + 1 < destheight THEN "copy" ELSE "format")
    /\ copied' = (IF desty + 1 < destheight THEN copied ELSE destbuf')
    /\ UNCHANGED <<callvars, imagevars, kernelvars, destx, result, log>>

\* The six per-pixel cases: one 4-byte cell read through a uint32_t pointer at
\* (srcx, srcy) and stored at (destx, desty).  A read beyond the end of the
\* caller's buffer is undefined: the bytes it yields are arbitrary.
CopyPixel ==
    /\ pc = "copy"
    /\ ~RowCopy(transform)
    /\ desty < destheight
    /\ destwidth > 0
    /\ LET sx == srcx(transform, destx, desty, destwidth, destheight)
           sy == srcy(transform, destx, desty, destwidth, destheight)
           so == sy * stride + sx * 4
           do == desty * deststride + destx * 4
           oob == (so..(so + 3)) \ DOMAIN srcbuf
           last == destx + 1 >= destwidth /\ desty + 1 >= destheight
       IN /\ reads' = so..(so + 3)
          /\ writes' = do..(do + 3)
          /\ \E g \in [oob -> Garbage] :
                LET mem == [i \in so..(so + 3) |->
                               IF i \in DOMAIN srcbuf THEN srcbuf[i] ELSE g[i]]
                IN destbuf' = Store32(destbuf, do,
                                      Load32(mem, so, is_little_endian),
                                      is_little_endian)
          /\ destx' = (IF destx + 1 < destwidth THEN destx + 1 ELSE 0)
          /\ desty' = (IF destx + 1 < destwidth THEN desty ELSE desty + 1)
          /\ pc' = (IF last THEN "format" ELSE "copy")
          /\ copied' = (IF last THEN destbuf' ELSE copied)
    /\ srcwrites' = {}
    /\ UNCHANGED <<callvars, imagevars, kernelvars, result, log>>

\* The same read, when the bytes beyond the end are not mapped at all.
CopyFault ==
    /\ pc = "copy"
    /\ ~RowCopy(transform)
    /\ desty < destheight
    /\ destwidth > 0
    /\ LET sx == srcx(transform, destx, desty, destwidth, destheight)
           sy == srcy(transform, destx, desty, destwidth, destheight)
           so == sy * stride + sx * 4
       IN /\ (so..(so + 3)) \ DOMAIN srcbuf # {}
          /\ reads' = so..(so + 3)
    /\ writes' = {} /\ srcwrites' = {}
    /\ pc' = "crashed"
    /\ UNCHANGED <<callvars, imagevars, kernelvars, destbuf, desty, destx, result,
                   log, copied>>

\* A copy loop that has nothing to iterate over.
CopyEmpty ==
    /\ pc = "copy"
    /\ ~(transform = "NORMAL" /\ stride = deststride)
    /\ destheight = 0 \/ (~RowCopy(transform) /\ destwidth = 0)
    /\ pc' = "format"
    /\ copied' = destbuf
    /\ reads' = {} /\ writes' = {} /\ srcwrites' = {}
    /\ UNCHANGED <<callvars, imagevars, kernelvars, destbuf, desty, destx, result, log>>

\* Lines 258-334: the format switch, up to the call of the kernel it picks.
FormatSwitch ==
    /\ pc = "format"
    /\ log' = (IF FormatIsDefault(format) THEN Append(log, UnknownFormatLine) ELSE log)
    /\ LET k == FormatKernel(format, is_little_endian)
       IN IF k = "none"
          THEN /\ pc' = "done"
               /\ result' = "image"
               /\ UNCHANGED kernelvars
          ELSE /\ pc' = "kernel"
               /\ kernel' = k
               /\ ky' = 0
               /\ kx' = KernelFirstX(k, destwidth)
               /\ kstart' = destbuf
               /\ UNCHANGED result
    /\ reads' = {} /\ writes' = {} /\ srcwrites' = {}
    /\ UNCHANGED <<callvars, imagevars, destbuf, desty, destx, copied>>

\* One iteration of the running kernel's inner loop.
KernelStep ==
    /\ pc = "kernel"
    /\ ky < destheight
    /\ destwidth > 0
    /\ destbuf' = KernelPixel(kernel, destbuf, kx, ky, deststride, is_little_endian)
    /\ writes' = KernelWrites(kx, ky, deststride)
    /\ reads' = {} /\ srcwrites' = {}
    /\ IF KernelRowDone(kernel, kx, destwidth)
       THEN ky' = ky + 1 /\ kx' = KernelFirstX(kernel, destwidth)
       ELSE ky' = ky /\ kx' = KernelNextX(kernel, kx, destwidth)
    /\ UNCHANGED <<callvars, imagevars, kernel, kstart, pc, desty, destx, result,
                   log, copied>>

\* The kernel returns; lines 307-314 call cairo_rgb24_swap_rb after the bgr888
\* kernel for RGB888, and line 336 returns the image.
KernelReturn ==
    /\ pc = "kernel"
    /\ ky >= destheight \/ destwidth = 0
    /\ IF entry = "load" /\ kernel = "bgr888" /\ format = "RGB888"
       THEN /\ kernel' = "swap_rb"
            /\ ky' = 0
            /\ kx' = KernelFirstX("swap_rb", destwidth)
            /\ kstart' = destbuf
            /\ UNCHANGED <<pc, result>>
       ELSE /\ pc' = "done"
            /\ result' = (IF entry = "load" THEN "image" ELSE "void")
            /\ UNCHANGED kernelvars
    /\ reads' = {} /\ writes' = {} /\ srcwrites' = {}
    /\ UNCHANGED <<callvars, imagevars, destbuf, desty, destx, log, copied>>

\* The caller hands the image of an XRGB8888 buffer back to
\* load_background_from_buffer, as an XRGB8888 buffer, with any transform.
LoadAgain ==
    /\ pc = "done"
    /\ entry = "load"
    /\ first = << >>
    /\ format \in {"XRGB8888", "ARGB8888"}
    /\ first' = <<[buf |-> srcbuf, width |-> width, height |-> height,
                   stride |-> stride, transform |-> transform]>>
    /\ srcbuf' = destbuf
    /\ width' = destwidth
    /\ height' = destheight
    /\ stride' = deststride
    /\ format' = "XRGB8888"
    /\ transform' \in Transforms
    /\ pc' = "create"
    /\ result' = "none"
    /\ reads' = {} /\ writes' = {} /\ srcwrites' = {}
    /\ UNCHANGED <<entry, is_little_endian, mode, imagevars, kernelvars, destbuf,
                   desty, destx, log, copied>>

Next ==
    \/ CreateImage
    \/ CopyAll
    \/ CopyRow
    \/ CopyPixel
    \/ CopyFault
    \/ CopyEmpty
    \/ FormatSwitch
    \/ KernelStep
    \/ KernelReturn
    \/ LoadAgain

Spec == Init /\ [][Next]_vars

(***************************************************************************)
(* A kernel called on its own, on a buffer of the caller's.                *)
(***************************************************************************)
\* 32-bit words made of three 10-bit fields and two top bits, as they lie in
\* memory little-endian; the cells of a buffer hold the word with its fields
\* rotated from cell to cell.
FieldSamples == {0, 3, 516, 1023}

TopSamples == {0, 3}

Words == [f0 : FieldSamples, f1 : FieldSamples, f2 : FieldSamples, top : TopSamples]

WordByte(w, j) ==
    CASE j = 0 -> w.f0 % 256
      [] j = 1 -> (w.f0 \div 256) + (w.f1 % 64) * 4
      [] j = 2 -> (w.f1 \div 64) + (w.f2 % 16) * 16
      [] OTHER -> (w.f2 \div 16) + w.top * 64

Rotate(w, c) ==
    CASE c % 3 = 0 -> w
      [] c % 3 = 1 -> [w EXCEPT !.f0 = w.f1, !.f1 = w.f2, !.f2 = w.f0]
      [] OTHER -> [w EXCEPT !.f0 = w.f2, !.f1 = w.f0, !.f2 = w.f1]

WordFill(w, n) == [i \in 0..(n - 1) |-> WordByte(Rotate(w, i \div 4), i % 4)]

KernelBuffers(n) == {Fill(p, n) : p \in Patterns} \cup {WordFill(w, n) : w \in Words}

InitKernel ==
    /\ entry = "kernel"
    /\ is_little_endian \in BOOLEAN
    /\ kernel \in Kernels
    /\ destwidth \in 0..MaxWidth
    /\ destheight \in 0..MaxHeight
    /\ deststride \in {4 * destwidth + 4 * p : p \in 0..MaxPad}
    /\ destbuf \in KernelBuffers(destheight * deststride)
    /\ kstart = destbuf
    /\ pc = "kernel"
    /\ ky = 0
    /\ kx = KernelFirstX(kernel, destwidth)
    /\ format = "none" /\ transform = "NORMAL"
    /\ width = 0 /\ height = 0 /\ stride = 0 /\ srcbuf = NoBuf
    /\ mode = << >>
    /\ InitIdle

NextKernel ==
    \/ KernelStep
    \/ KernelReturn

SpecKernel == InitKernel /\ [][NextKernel]_vars

(***************************************************************************)
(* parse_background_mode called on a text.                                 *)
(***************************************************************************)
KeywordNames == {"stretch", "fill", "fit", "center", "tile", "solid_color"}

Codes == 1..Len(Chars)

\* The characters of a C string: what precedes its first 0.
RECURSIVE TextOf(_)
TextOf(m) == IF Head(m) = 0 THEN << >> ELSE <<Head(m)>> \o TextOf(Tail(m))

\* The keywords, their prefixes, and the keywords with one character added in
\* front, added behind or replaced, or followed by bytes after the terminator.
Texts ==
    UNION {
        LET L == TextOf(Keyword(k))
        IN {Append(SubSeq(L, 1, n), 0) : n \in 0..Len(L)}
           \cup {Append(Append(L, c), 0) : c \in Codes}
           \cup {Append(<<c>> \o L, 0) : c \in Codes}
           \cup {Append([L EXCEPT ![i] = c], 0) : i \in 1..Len(L), c \in Codes}
           \cup {Append(L, 0) \o <<c, 0>> : c \in Codes}
        : k \in KeywordNames}
    \cup {CStr(<<"b", "o", "g", "u", "s">>)}

InitParse ==
    /\ entry = "parse"
    /\ mode \in Texts
    /\ pc = "parse"
    /\ is_little_endian \in BOOLEAN
    /\ format = "none" /\ transform = "NORMAL"
    /\ width = 0 /\ height = 0 /\ stride = 0 /\ srcbuf = NoBuf
    /\ destbuf = NoBuf /\ destwidth = 0 /\ destheight = 0 /\ deststride = 0
    /\ kernel = "none" /\ ky = 0 /\ kx = 0 /\ kstart = NoBuf
    /\ InitIdle

ParseBackgroundMode ==
    /\ pc = "parse"
    /\ result' = parse_background_mode(mode).ret
    /\ log' = log \o parse_background_mode(mode).logged
    /\ pc' = "done"
    /\ UNCHANGED <<callvars, imagevars, kernelvars, destbuf, desty, destx, reads,
                   writes, srcwrites, copied>>

NextParse ==
    \/ ParseBackgroundMode

SpecParse == InitParse /\ [][NextParse]_vars

(***************************************************************************)
(* The claims.                                                             *)
(***************************************************************************)
\* The uint32_t cell (x, y) of a buffer of 4-byte cells, as this host reads it.
Cell(buf, x, y, stride_) == Load32(buf, y * stride_ + x * 4, is_little_endian)

\* The four bytes of cell (x, y) of a buffer of 4-byte cells, in memory order.
CellBytes(buf, x, y, stride_) == [k \in 0..3 |-> buf[y * stride_ + x * 4 + k]]

DestXs == 0..(destwidth - 1)

DestYs == 0..(destheight - 1)

\* load_background_from_buffer has returned its image.
Loaded == entry = "load" /\ pc = "done" /\ result = "image"

Inverse(t) == CASE t = "90" -> "270" [] t = "270" -> "90" [] OTHER -> t

\* C2: on a little-endian host, loading an XRGB8888 buffer with a transform
\* and loading the image again with the inverse transform gives an image of
\* the first buffer's width and height whose every cell is the first buffer's
\* cell at the same place.
C2_RoundTrip ==
    (Loaded /\ first # << >> /\ is_little_endian
        /\ transform = Inverse(first[1].transform))
    => /\ destwidth = first[1].width
       /\ destheight = first[1].height
       /\ \A x \in DestXs, y \in DestYs :
            CellBytes(destbuf, x, y, deststride)
              = CellBytes(first[1].buf, x, y, first[1].stride)

\* A padded 2 x 1 buffer was loaded with 90 and its image with 270.
C2_Witness ==
    /\ Loaded /\ first # << >> /\ is_little_endian
    /\ first[1].transform = "90" /\ transform = "270"
    /\ first[1].width = 2 /\ first[1].height = 1
    /\ first[1].stride > 4 * first[1].width

\* The copy stage has run on a buffer of 4-byte cells with transform 270.
Copied270 ==
    /\ entry = "load"
    /\ pc \in {"format", "kernel", "done"}
    /\ transform = "270"
    /\ BytesPerPixel(format) = 4

\* C3, as claimed: with transform 270 the copy stage fills cell (destx, desty)
\* from the source cell in column desty, row destx.
C3_Claimed ==
    Copied270
    => \A dx \in DestXs, dy \in DestYs :
         CellBytes(copied, dx, dy, deststride) = CellBytes(srcbuf, dy, dx, stride)

\* C3, amended: with transform 270 the copy stage fills cell (destx, desty)
\* from the source cell in column destheight - desty - 1, row destx.
C3_Rotate270 ==
    Copied270
    => \A dx \in DestXs, dy \in DestYs :
         CellBytes(copied, dx, dy, deststride)
           = CellBytes(srcbuf, destheight - dy - 1, dx, stride)

\* A 2 x 2 buffer of 4-byte cells was loaded with transform 270.
C3_Witness ==
    /\ Copied270 /\ pc = "done"
    /\ width = 2 /\ height = 2

\* What the format switch makes of one 4-byte cell tagged f.
Normalized(f, bytes) ==
    LET k == FormatKernel(f, is_little_endian)
    IN IF k = "none" THEN bytes ELSE KernelPixel(k, bytes, 0, 0, 4, is_little_endian)

\* The source cell that destination cell (dx, dy) is copied from.
SourceBytes(dx, dy) ==
    CellBytes(srcbuf, srcx(transform, dx, dy, destwidth, destheight),
              srcy(transform, dx, dy, destwidth, destheight), stride)

\* The bytes (b0, b1, b2, b3) as (b2, b1, b0, b3).
SwapRB(b) == [k \in 0..3 |-> CASE k = 0 -> b[2] [] k = 2 -> b[0] [] OTHER -> b[k]]

LoadedSwapped == Loaded /\ format \in {"XBGR8888", "ABGR8888"}

\* C4, as claimed: a pixel (b0, b1, b2, b3) tagged XBGR8888 or ABGR8888 comes
\* out as the same 4-byte cell as the pixel (b2, b1, b0, b3) tagged XRGB8888
\* or ARGB8888.
C4_Claimed ==
    LoadedSwapped
    => \A dx \in DestXs, dy \in DestYs, g \in {"XRGB8888", "ARGB8888"} :
         CellBytes(destbuf, dx, dy, deststride)
           = Normalized(g, SwapRB(SourceBytes(dx, dy)))

\* C4, amended: the two cells agree in their R, G and B channels (bits 0..23
\* of the cell); the unused top byte is 0 for the swapped order, and for
\* XRGB8888 or ARGB8888 it is 0 on a big-endian host and the source's b3 on a
\* little-endian host, where no kernel runs.
C4_SwapEquivalentRGB ==
    LoadedSwapped
    => \A dx \in DestXs, dy \in DestYs, g \in {"XRGB8888", "ARGB8888"} :
         LET here == Cell(destbuf, dx, dy, deststride)
             there == Load32(Normalized(g, SwapRB(SourceBytes(dx, dy))), 0,
                             is_little_endian)
         IN /\ \A k \in 0..2 : here[k] = there[k]
            /\ here[3] = 0
            /\ there[3] = (IF is_little_endian THEN SourceBytes(dx, dy)[3] ELSE 0)

\* A swapped-order pixel with a non-zero fourth byte was loaded on a
\* little-endian host.
C4_Witness ==
    /\ LoadedSwapped /\ is_little_endian
    /\ width = 1 /\ height = 1
    /\ srcbuf[3] # 0

\* The default label was taken: the format is none the switch names.
LoadedUnknown == Loaded /\ FormatIsDefault(format)

Pixel24(x, y) ==
    LET o == y * stride + x * 3
    IN IF format = "BGR888"
       THEN <<srcbuf[o], srcbuf[o + 1], srcbuf[o + 2]>>
       ELSE <<srcbuf[o + 2], srcbuf[o + 1], srcbuf[o]>>

\* C9: for a BGR888 or RGB888 buffer and any transform, cell (destx, desty) of
\* the image is R << 16 | G << 8 | B of the source pixel at the transform's
\* (srcx, srcy).
C9_Claimed ==
    (Loaded /\ format \in {"BGR888", "RGB888"})
    => \A dx \in DestXs, dy \in DestYs :
         LET p == Pixel24(srcx(transform, dx, dy, destwidth, destheight),
                          srcy(transform, dx, dy, destwidth, destheight))
         IN Cell(destbuf, dx, dy, deststride) = U32(0, p[1], p[2], p[3])

\* C10: every byte read from the caller's buffer lies inside it, every byte
\* written to the image lies inside the image, and the caller's buffer is
\* never written.
C10_Claimed ==
    (entry = "load" /\ format \in SupportedFormats)
    => /\ reads \subseteq DOMAIN srcbuf
       /\ writes \subseteq DOMAIN destbuf
       /\ srcwrites = {}

\* A kernel called on its own has returned.
KernelDone(k) == entry = "kernel" /\ pc = "done" /\ kernel = k

\* Bit n of the 32-bit word whose bytes, least significant first, are w.
Bit(w, n) == (w[n \div 8] \div Pow2(n % 8)) % 2

\* The 10-bit channel of w whose lowest bit is bit lo.
RECURSIVE Channel(_, _, _)
Channel(w, lo, n) ==
    IF n = 0 THEN 0 ELSE Bit(w, lo) + 2 * Channel(w, lo + 1, n - 1)

\* The lowest bits of the R, G and B channels of the four 10-bit formats.
Layout(k) ==
    CASE k = "xrgb2101010" -> [r |-> 20, g |-> 10, b |-> 0]
      [] k = "xbgr2101010" -> [r |-> 0, g |-> 10, b |-> 20]
      [] k = "rgbx1010102" -> [r |-> 22, g |-> 12, b |-> 2]
      [] OTHER -> [r |-> 2, g |-> 12, b |-> 22]

TenBitKernels == {"xrgb2101010", "xbgr2101010", "rgbx1010102", "bgrx1010102"}

\* C5: each 10-bit kernel turns every little-endian source word into the word
\* with R div 4 in bits 16..23, G div 4 in bits 8..15, B div 4 in bits 0..7 and
\* zero in bits 24..31, R, G and B being the format's 10-bit channels.
C5_TenBitTruncation ==
    \A k \in TenBitKernels :
      KernelDone(k)
      => \A x \in DestXs, y \in DestYs :
           LET w == CellBytes(kstart, x, y, deststride)
           IN Cell(destbuf, x, y, deststride)
                = U32(0, Channel(w, Layout(k).r, 10) \div 4,
                         Channel(w, Layout(k).g, 10) \div 4,
                         Channel(w, Layout(k).b, 10) \div 4)

\* A 10-bit kernel has run on a word with channels 1023, 3 and 0.
C5_Witness ==
    /\ KernelDone("xrgb2101010")
    /\ destwidth = 1 /\ destheight = 1
    /\ LET w == CellBytes(kstart, 0, 0, deststride)
       IN /\ Channel(w, 20, 10) = 1023
          /\ Channel(w, 10, 10) = 3
          /\ Channel(w, 0, 10) = 0

\* The bgr888 kernel, called on its own, is running or has returned.
Widening == entry = "kernel" /\ kernel = "bgr888"

\* The row that the last iteration of the running kernel worked on.
LastRow == IF kx = KernelFirstX(kernel, destwidth) THEN ky - 1 ELSE ky

\* C6: while cairo_rgb24_from_bgr888_le is about to widen column kx of row ky,
\* the 3-byte cells of the columns before kx in that row hold their original
\* bytes; an iteration writes no byte outside its row; and once the kernel
\* has returned, every 4-byte cell x of every row holds s0 << 16 | s1 << 8 | s2
\* of the original bytes of 3-byte cell x of that row.
C6_WideningKeepsUnread ==
    Widening
    => /\ (pc = "kernel" /\ ky < destheight /\ destwidth > 0)
          => \A j \in 0..(kx - 1), b \in 0..2 :
               destbuf[ky * deststride + j * 3 + b]
                 = kstart[ky * deststride + j * 3 + b]
       /\ writes # {}
          => writes \subseteq (LastRow * deststride)..((LastRow + 1) * deststride - 1)
       /\ pc = "done"
          => \A x \in DestXs, y \in DestYs :
               LET o == y * deststride + x * 3
               IN Cell(destbuf, x, y, deststride)
                    = U32(0, kstart[o], kstart[o + 1], kstart[o + 2])

\* The last column of a row of two marked pixels was widened, the first not yet.
C6_Witness ==
    /\ Widening /\ pc = "kernel"
    /\ destwidth = 2 /\ ky = 1 /\ kx = 0 /\ destheight = 2
    /\ writes # {}
    /\ \A i, j \in 0..5 : i # j => kstart[deststride + i] # kstart[deststride + j]

(***************************************************************************)
(* C8.                                                                     *)
(***************************************************************************)
\* The six keywords and the modes they stand for.
ModeTable ==
    {<<"BACKGROUND_MODE_STRETCH", <<"s", "t", "r", "e", "t", "c", "h">> >>,
     <<"BACKGROUND_MODE_FILL", <<"f", "i", "l", "l">> >>,
     <<"BACKGROUND_MODE_FIT", <<"f", "i", "t">> >>,
     <<"BACKGROUND_MODE_CENTER", <<"c", "e", "n", "t", "e", "r">> >>,
     <<"BACKGROUND_MODE_TILE", <<"t", "i", "l", "e">> >>,
     <<"BACKGROUND_MODE_SOLID_COLOR",
       <<"s", "o", "l", "i", "d", "_", "c", "o", "l", "o", "r">> >>}

\* The text spells exactly these letters.
Spells(m, letters) ==
    /\ Len(TextOf(m)) = Len(letters)
    /\ \A i \in 1..Len(letters) : Chars[TextOf(m)[i]] = letters[i]

\* C8: parse_background_mode returns on every text; it returns a keyword's
\* mode exactly when the text is that keyword, BACKGROUND_MODE_INVALID for
\* every other text, and logs a line exactly when it returns
\* BACKGROUND_MODE_INVALID.
C8_ParseExact ==
    /\ (entry = "parse" /\ pc = "parse") => ENABLED ParseBackgroundMode
    /\ (entry = "parse" /\ pc = "done")
       => /\ \A e \in ModeTable : (result = e[1]) <=> Spells(mode, e[2])
          /\ (result = "BACKGROUND_MODE_INVALID")
               <=> (\A e \in ModeTable : ~Spells(mode, e[2]))
          /\ result \in {e[1] : e \in ModeTable} \cup {"BACKGROUND_MODE_INVALID"}
          /\ (log = <<UnsupportedModeLine>>) <=> (result = "BACKGROUND_MODE_INVALID")
          /\ (log = << >>) <=> (result # "BACKGROUND_MODE_INVALID")

\* A keyword with one more letter was turned down.
C8_Witness ==
    /\ entry = "parse" /\ pc = "done"
    /\ Spells(mode, <<"t", "i", "l", "e", "s">>)
    /\ result = "BACKGROUND_MODE_INVALID"
    /\ log = <<UnsupportedModeLine>>

====
